---- MODULE Spec2Model ----
\* Model of eessi_software_reproduce_stack.py: the crawl of the reprod tree by a
\* pool of workers, the merge and chronological sort of the registry, and the
\* greedy segmentation of the sorted registry into easystack files.
EXTENDS Integers, Sequences, FiniteSets, TLC

\* ---------------------------------------------------------------- bounds
\* Time is counted in ticks of half a minute since 1970-01-01 00:00:00 UTC.
TicksPerMinute == 2
\* Latest datestamp (in ticks) of an attempt directory.
MaxStamp == 2
\* Longest build (in ticks) recorded in a log.
MaxDur == 3
\* Largest --max-build-time (in minutes) tried.
MaxBudget == 2
\* Number of times the script is run on the tree.
MaxRuns == 2
\* Most unit directories in the tree.
MaxUnits == 2
\* Longest registry handed to the segmentation loop alone, builds of any length.
MaxRecords == 3
\* Longest registry handed to the segmentation loop alone, builds of one tick.
MaxLong == 10
\* Most attempt directories of a version, for the crawl of one unit.
MaxAttempts == 3
\* Most lines of a log, for the crawl of one unit.
MaxLines == 3

\* ---------------------------------------------------------------- strings
\* A Python string is a sequence of one-character strings.
Dash == <<"-">>

\* The characters that occur in file names, in ASCII order.
Alphabet ==
    << "-", ".", "0", "1", "2", "3", "4", "5", "6", "7", "8", "9",
       "B", "E", "N", "a", "b", "c", "d", "e", "i", "k", "l", "m", "n", "o",
       "s", "t", "u", "y" >>

Ord(c) == CHOOSE i \in 1..Len(Alphabet) : Alphabet[i] = c

\* s < t for Python strings (lexicographic by code point).
RECURSIVE StrLess(_, _)
StrLess(s, t) ==
    IF t = <<>> THEN FALSE
    ELSE IF s = <<>> THEN TRUE
    ELSE IF Head(s) = Head(t) THEN StrLess(Tail(s), Tail(t))
    ELSE Ord(Head(s)) < Ord(Head(t))

DigitChar == << "0", "1", "2", "3", "4", "5", "6", "7", "8", "9" >>

\* str(n) of a non-negative integer, as an f-string formats it.
RECURSIVE Str(_)
Str(n) ==
    IF n < 10 THEN << DigitChar[n + 1] >>
    ELSE Str(n \div 10) \o << DigitChar[(n % 10) + 1] >>

\* None; the empty string is as falsy as None where the script tests it.
None == <<>>

\* A value in an f-string: None is written "None".
Fmt(v) == IF v = None THEN << "N", "o", "n", "e" >> ELSE v

\* f"{x:.0f}" of a duration of x ticks: minutes, rounded half to even.
FmtMinutes(x) ==
    LET lo == x \div TicksPerMinute
        twice == 2 * (x % TicksPerMinute)
    IN  IF twice < TicksPerMinute THEN lo
        ELSE IF twice > TicksPerMinute THEN lo + 1
        ELSE IF lo % 2 = 0 THEN lo ELSE lo + 1

\* ---------------------------------------------------------------- dicts
\* A Python dict is a sequence of [k, v] items in insertion order, keys unique.
Keys(d) == { d[i].k : i \in 1..Len(d) }

\* d[key] = val: a present key keeps its position and takes the new value.
DictSet(d, key, val) ==
    IF key \in Keys(d)
    THEN [ i \in 1..Len(d) |-> IF d[i].k = key THEN [k |-> key, v |-> val] ELSE d[i] ]
    ELSE Append(d, [k |-> key, v |-> val])

\* dict(items): the items inserted one after the other.
RECURSIVE DictOf(_)
DictOf(items) ==
    IF items = <<>> THEN <<>>
    ELSE LET last == items[Len(items)]
         IN  DictSet(DictOf(SubSeq(items, 1, Len(items) - 1)), last.k, last.v)

\* ---------------------------------------------------------------- the tree
\* The names the script builds keys and file names from.
EasyBuild == << "E", "a", "s", "y", "B", "u", "i", "l", "d" >>
EB4 == << "4", ".", "9", ".", "4" >>
EB5 == << "5", ".", "1", ".", "1" >>
EBVersions == { EB4, EB5 }

\* A line of a log: the timestamp the pattern of get_build_duration finds in it
\* (NoStamp: no match) and the version the pattern of get_easybuild_version
\* finds in it (None: no match).
NoStamp == -1
Line(stamp, marker) == [stamp |-> stamp, marker |-> marker]

\* The sentinel 19700101_000000UTC.
Epoch == 0

VARIABLES
    root_dir,               \* the reprod tree, every directory in os.listdir order
    eb_override_version,    \* --eb-override-version
    max_build_time,         \* --max-build-time, in minutes
    files,                  \* the output directory: file name -> lines
    pc,                     \* where the script is
    run,                    \* the number of the run
    snapshot,               \* the output directory when the run started
    software_list,          \* os.listdir(root_dir)
    software_info_list,     \* the results of the pool's tasks
    software_info,          \* the registry
    idx,                    \* position of the segmentation loop in software_info
    sequence_number,
    previous_eb_ver,
    total_build_duration,
    build_duration_current_easystack,
    local_software_info,
    emitted                 \* the calls of write_software_info of this run

params == << root_dir, eb_override_version, max_build_time >>
loopvars == << idx, sequence_number, previous_eb_ver, total_build_duration,
               build_duration_current_easystack, local_software_info >>
vars == << root_dir, eb_override_version, max_build_time, files, pc, run, snapshot,
           software_list, software_info_list, software_info, idx, sequence_number,
           previous_eb_ver, total_build_duration, build_duration_current_easystack,
           local_software_info, emitted >>

\* ---------------------------------------------------------------- log extractor
\* An exception: its type, and what its message names.
Raised(exception, names) == [ok |-> FALSE, exception |-> exception, names |-> names]

\* re.search(re_pattern, None)
NoLine == Raised("TypeError", {})
\* ValueError(f"Failed to find pattern {re_pattern} in line {first_line}")
NoTimestamp == Raised("ValueError", { "pattern", "line" })
\* re.search(re_pattern, first_line).group(1) on None
NoMarker == Raised("AttributeError", {})
\* ValueError(f"Expected only one file to match {build_log_path_glob}. Instead got: {matching_files}")
NotOneFile == Raised("ValueError", { "path", "files" })
\* os.listdir(software_version_dir)[0] of an empty directory
NoAttempt == Raised("IndexError", {})
Returned(val) == [ok |-> TRUE, val |-> val]

\* get_build_duration whose loop sets last_line only for the lines after the first.
get_build_duration_last_after_first(log) ==
    IF Len(log) < 2 THEN NoLine
    ELSE IF log[1].stamp = NoStamp THEN NoTimestamp
    ELSE IF log[Len(log)].stamp = NoStamp THEN NoTimestamp
    ELSE Returned(log[Len(log)].stamp - log[1].stamp)

\* get_build_duration from the earliest and the latest timestamp of all the lines.
get_build_duration_of_all_lines(log) ==
    LET stamps == { log[n].stamp : n \in 1..Len(log) } \ { NoStamp }
    IN  IF stamps = {} THEN NoTimestamp
        ELSE Returned((CHOOSE t \in stamps : \A u \in stamps : t >= u)
                      - (CHOOSE t \in stamps : \A u \in stamps : t <= u))

\* get_build_duration without the test of the last line's match.
get_build_duration_unchecked_end(log) ==
    IF log = <<>> THEN NoLine
    ELSE IF log[1].stamp = NoStamp THEN NoTimestamp
    ELSE Returned(log[Len(log)].stamp - log[1].stamp)

\* get_build_duration: the first and the last line of the log, the timestamp
\* pattern on both, their difference.
get_build_duration(log) ==
    IF log = <<>> THEN NoLine
    ELSE LET first_line == log[1]
             last_line == log[Len(log)]
         IN  IF first_line.stamp = NoStamp THEN NoTimestamp
             ELSE IF last_line.stamp = NoStamp THEN NoTimestamp
             ELSE Returned(last_line.stamp - first_line.stamp)

\* get_easybuild_version that looks for the marker in every line.
get_easybuild_version_of_any_line(log) ==
    IF \A n \in 1..Len(log) : log[n].marker = None THEN NoMarker
    ELSE Returned(log[CHOOSE n \in 1..Len(log) :
                        /\ log[n].marker # None
                        /\ \A m \in 1..(n - 1) : log[m].marker = None].marker)

\* get_easybuild_version: the marker pattern on the first line of the log.
get_easybuild_version(log) ==
    IF log = <<>> THEN NoMarker
    ELSE IF log[1].marker = None THEN NoMarker
    ELSE Returned(log[1].marker)

\* ---------------------------------------------------------------- directory crawler
\* The directory os.path.join(root_dir, software_name).
UnitDir(software_name) ==
    root_dir[CHOOSE i \in 1..Len(root_dir) : root_dir[i].name = software_name]

\* override_easybuild_version that does not look at the name of the unit.
override_easybuild_version_of_any_unit(software_name) ==
    eb_override_version # None

\* Whether the version of EasyBuild is overridden for this unit.
override_easybuild_version(software_name) ==
    software_name = EasyBuild /\ eb_override_version # None

\* first_build_time without the sentinel: the datestamp also under an override.
first_build_time_of_directory(software_name, datestamp_dir_first_build) ==
    datestamp_dir_first_build.datestamp

\* The time of the initial build: the datestamp of the first attempt directory
\* listed, or the sentinel under an override.
first_build_time(software_name, datestamp_dir_first_build) ==
    IF override_easybuild_version(software_name) THEN Epoch
    ELSE datestamp_dir_first_build.datestamp

\* first_build_duration that takes the first file the glob matches, however many.
first_build_duration_of_any_match(datestamp_dir_first_build) ==
    IF datestamp_dir_first_build.logs = <<>> THEN NotOneFile
    ELSE get_build_duration(datestamp_dir_first_build.logs[1])

\* The build duration, from the one log of the first attempt directory listed.
first_build_duration(datestamp_dir_first_build) ==
    IF Len(datestamp_dir_first_build.logs) # 1 THEN NotOneFile
    ELSE get_build_duration(datestamp_dir_first_build.logs[1])

\* last_build_easybuild_version that globs the last attempt directory before it
\* looks at the override.
last_build_easybuild_version_globbed(software_name, datestamp_dir_last_build) ==
    IF Len(datestamp_dir_last_build.logs) # 1 THEN NotOneFile
    ELSE IF override_easybuild_version(software_name) THEN Returned(eb_override_version)
    ELSE get_easybuild_version(datestamp_dir_last_build.logs[1])

\* The EasyBuild version: the override, or the one found in the one log of the
\* last attempt directory listed.
last_build_easybuild_version(software_name, datestamp_dir_last_build) ==
    IF override_easybuild_version(software_name) THEN Returned(eb_override_version)
    ELSE IF Len(datestamp_dir_last_build.logs) # 1 THEN NotOneFile
    ELSE get_easybuild_version(datestamp_dir_last_build.logs[1])

\* software_name + "-" + software_version
registry_key(software_name, software_version) ==
    software_name \o Dash \o software_version

\* The item stored for a version; last_datestamp names the attempt directory the
\* two paths point into.
software_item(software_name, software_version, time, duration, eb_ver, last_datestamp) ==
    LET last_dir == << software_name, software_version, last_datestamp >>
    IN  [k |-> registry_key(software_name, software_version),
         v |-> [initial_build_time |-> time,
                build_duration |-> duration,
                easybuild_version |-> eb_ver,
                easyblock_path |-> [dir |-> last_dir, glob |-> "easyblocks/*.py"],
                easyconfig_path |->
                    [dir |-> last_dir,
                     eb |-> software_name \o Dash \o software_version]]]

\* The body of the loop over the versions of inner_loop, for one version
\* directory: the item it stores, or the exception it raises.
version_info(software_name, version_dir) ==
    LET listing == version_dir.attempts
    IN  IF listing = <<>> THEN NoAttempt
        ELSE
        LET datestamp_dir_first_build == listing[1]
            datestamp_dir_last_build == listing[Len(listing)]
            duration == first_build_duration(datestamp_dir_first_build)
            eb_ver == last_build_easybuild_version(software_name, datestamp_dir_last_build)
        IN  IF ~duration.ok THEN duration
            ELSE IF ~eb_ver.ok THEN eb_ver
            ELSE Returned(
                software_item(software_name, version_dir.version,
                              first_build_time(software_name, datestamp_dir_first_build),
                              duration.val, eb_ver.val,
                              datestamp_dir_last_build.datestamp))

\* The loop of inner_loop over os.listdir(software_dir).
RECURSIVE crawl_versions(_, _, _)
crawl_versions(software_name, version_dirs, info) ==
    IF version_dirs = <<>> THEN Returned(info)
    ELSE LET item == version_info(software_name, Head(version_dirs))
         IN  IF ~item.ok THEN item
             ELSE crawl_versions(software_name, Tail(version_dirs),
                                 DictSet(info, item.val.k, item.val.v))

inner_loop(software_name) ==
    crawl_versions(software_name, UnitDir(software_name).versions, <<>>)

\* ---------------------------------------------------------------- aggregation
Pending == [state |-> "pending"]

\* The items of all the dicts of the list, in order.
RECURSIVE AllItems(_)
AllItems(dicts) ==
    IF dicts = <<>> THEN <<>> ELSE Head(dicts) \o AllItems(Tail(dicts))

\* {k: v for d in software_info_list if d for k, v in d.items()}
merge(dicts) == DictOf(AllItems(dicts))

\* Insert for a sort that is not stable: the item goes before the items of its time.
RECURSIVE Insert_before_equal(_, _)
Insert_before_equal(sorted, item) ==
    IF sorted = <<>> THEN << item >>
    ELSE LET last == sorted[Len(sorted)]
         IN  IF last.v.initial_build_time < item.v.initial_build_time
             THEN Append(sorted, item)
             ELSE Append(Insert_before_equal(SubSeq(sorted, 1, Len(sorted) - 1), item), last)

\* sorted(items, key=initial_build_time): a stable sort.
RECURSIVE Insert(_, _)
Insert(sorted, item) ==
    IF sorted = <<>> THEN << item >>
    ELSE LET last == sorted[Len(sorted)]
         IN  IF last.v.initial_build_time <= item.v.initial_build_time
             THEN Append(sorted, item)
             ELSE Append(Insert(SubSeq(sorted, 1, Len(sorted) - 1), item), last)

RECURSIVE Sorted(_)
Sorted(items) ==
    IF items = <<>> THEN <<>>
    ELSE Insert(Sorted(SubSeq(items, 1, Len(items) - 1)), items[Len(items)])

chronological(info) == DictOf(Sorted(info))

\* ---------------------------------------------------------------- manifest writer
\* easystack_name with the version of the record the loop is at, where it is at one.
easystack_name_of_current(number, eb_ver) ==
    << "e", "a", "s", "y", "s", "t", "a", "c", "k", "-" >> \o Str(number)
        \o << "-", "e", "b", "-" >>
        \o Fmt(IF idx <= Len(software_info) THEN software_info[idx].v.easybuild_version
               ELSE eb_ver)
        \o << ".", "y", "m", "l" >>

\* f'easystack-{sequence_number}-eb-{previous_eb_ver}.yml'
easystack_name(number, eb_ver) ==
    << "e", "a", "s", "y", "s", "t", "a", "c", "k", "-" >> \o Str(number)
        \o << "-", "e", "b", "-" >> \o Fmt(eb_ver) \o << ".", "y", "m", "l" >>

\* The lines write_software_info writes: the header, "easyconfigs:", and the
\* entry of every item of the dict in its order.
manifest_lines(info, easystack_file, build_duration) ==
    << [text |-> "header", file |-> easystack_file, minutes |-> FmtMinutes(build_duration)],
       [text |-> "easyconfigs:"] >>
    \o [ i \in 1..Len(info) |->
            [text |-> "entry",
             easyconfig |-> info[i].v.easyconfig_path,
             easyblocks |-> info[i].v.easyblock_path] ]

\* open(easystack_file, "a"): the lines go after what the file holds.
write_software_info(fs, info, easystack_file, build_duration) ==
    LET old == IF easystack_file \in DOMAIN fs THEN fs[easystack_file] ELSE <<>>
    IN  [ f \in DOMAIN fs \cup { easystack_file } |->
            IF f = easystack_file
            THEN old \o manifest_lines(info, easystack_file, build_duration)
            ELSE fs[f] ]

Call(info, easystack_file, build_duration) ==
    [file |-> easystack_file, info |-> info, duration |-> build_duration,
     lines |-> manifest_lines(info, easystack_file, build_duration)]

\* ---------------------------------------------------------------- the trees tried
\* The sequences without repetition of at most n elements of S.
RECURSIVE Listings(_, _)
Listings(S, n) ==
    IF n = 0 THEN { <<>> }
    ELSE LET shorter == Listings(S, n - 1)
         IN  shorter \cup { Append(l, x) : l \in shorter, x \in S }

Distinct(seq) == \A i, j \in 1..Len(seq) : i # j => seq[i] # seq[j]

\* The log of a build that started at tick t, took d ticks and ran under EasyBuild v.
GoodLog(t, d, v) == << Line(t, v), Line(t + d, None) >>

Stamps == 1..MaxStamp
\* The durations of the builds tried for the loop alone; a log whose last timestamp
\* precedes its first (local time set back during the build) gives a negative one.
Durations == -1..MaxDur

\* The lines of a log that get_build_duration or get_easybuild_version rejects:
\* no line at all, a first line without timestamp, a first line without marker.
BadLogs(t) ==
    { <<>>,
      << Line(NoStamp, EB4), Line(t, None) >>,
      << Line(t, None), Line(t + 1, None) >> }

\* An attempt directory of tick t with the files ls matching the log glob.
AttemptDir(t, ls) == [datestamp |-> t, logs |-> ls]

\* Attempt directories whose glob matches exactly one well-formed log.
GoodAttempts(builds) ==
    { AttemptDir(t, << GoodLog(t, b[1], b[2]) >>) : t \in Stamps, b \in builds }

\* Attempt directories the crawl fails on: no file matches, two files match,
\* the one log is rejected.
BadAttempts ==
    { AttemptDir(1, <<>>), AttemptDir(1, << GoodLog(1, 1, EB4), GoodLog(1, 1, EB4) >>) }
    \cup { AttemptDir(1, << log >>) : log \in BadLogs(1) }

\* A build under EB4 and a later rebuild under EB5, in either os.listdir order.
Rebuilt ==
    { l \in Listings({ AttemptDir(1, << GoodLog(1, 1, EB4) >>),
                       AttemptDir(MaxStamp, << GoodLog(MaxStamp, 2, EB5) >>) }, 2) :
        Len(l) = 2 /\ Distinct(l) }

\* The units of the tree, the versions installed of each (one per tree) and the
\* attempt directories of a version (in os.listdir order).
UnitA == << "a" >>
UnitAB == << "a", "-", "b" >>
UnitNames == { EasyBuild, UnitA, UnitAB }

VersionsOf(name) ==
    IF name = UnitA THEN { << "b", "-", "c" >>, << "d" >> }
    ELSE IF name = UnitAB THEN { << "c" >> }
    ELSE { EB5 }

AttemptsOf(name) ==
    IF name = UnitA
    THEN { << a >> : a \in GoodAttempts({ <<1, EB4>>, <<MaxDur, EB4>>, <<1, EB5>> })
                           \cup BadAttempts }
         \cup Rebuilt
    ELSE IF name = UnitAB
    THEN { << a >> : a \in GoodAttempts({ <<1, EB4>>, <<MaxDur, EB5>> }) }
    ELSE { << a >> : a \in GoodAttempts({ <<1, EB5>> })
                           \cup { AttemptDir(1, <<>>), AttemptDir(1, << <<>> >>) } }

UnitDirs(name) ==
    { [name |-> name, versions |-> << [version |-> v, attempts |-> att] >>] :
        v \in VersionsOf(name), att \in AttemptsOf(name) }

\* The trees with the units of a listing.
RECURSIVE TreesOf(_)
TreesOf(names) ==
    IF names = <<>> THEN { <<>> }
    ELSE { << u >> \o rest : u \in UnitDirs(Head(names)), rest \in TreesOf(Tail(names)) }

Trees ==
    UNION { TreesOf(names) : names \in { l \in Listings(UnitNames, MaxUnits) : Distinct(l) } }

\* ---------------------------------------------------------------- the script
LoopStart ==
    /\ idx = 1
    /\ sequence_number = 1
    /\ previous_eb_ver = None
    /\ total_build_duration = 0
    /\ build_duration_current_easystack = 0
    /\ local_software_info = <<>>

Init ==
    /\ root_dir \in Trees
    /\ eb_override_version \in { None, EB4 }
    /\ max_build_time \in { 1, MaxBudget }
    /\ files = << >>
    /\ snapshot = << >>
    /\ pc = "listdir"
    /\ run = 1
    /\ software_list = <<>>
    /\ software_info_list = <<>>
    /\ software_info = <<>>
    /\ LoopStart
    /\ emitted = <<>>

\* software_list = os.listdir(root_dir), and the tasks handed to the pool.
ListRoot ==
    /\ pc = "listdir"
    /\ software_list' = [ i \in 1..Len(root_dir) |-> root_dir[i].name ]
    /\ software_info_list' = [ i \in 1..Len(root_dir) |-> Pending ]
    /\ pc' = "map"
    /\ UNCHANGED << params, files, run, snapshot, software_info, loopvars, emitted >>

\* A worker of the pool runs inner_loop on one name of the list.
Worker(i) ==
    /\ pc = "map"
    /\ software_info_list[i] = Pending
    /\ LET result == inner_loop(software_list[i])
       IN  software_info_list' =
             [software_info_list EXCEPT ![i] =
                IF result.ok THEN [state |-> "returned", info |-> result.val]
                ELSE [state |-> "raised", exception |-> result.exception,
                      names |-> result.names]]
    /\ UNCHANGED << params, files, pc, run, snapshot, software_list, software_info,
                    loopvars, emitted >>

\* after_map that goes on to the merge whatever the tasks did.
after_map_unchecked(results) == "merge"

\* Where the script goes when pool.map ends: it re-raises a task's exception.
after_map(results) ==
    IF \E i \in 1..Len(results) : results[i].state = "raised"
    THEN "aborted" ELSE "merge"

\* Join that does not wait for every task: it ends once one task has ended.
Join_first_ended ==
    /\ pc = "map"
    /\ \E i \in 1..Len(software_info_list) : software_info_list[i] # Pending
    /\ pc' = after_map(software_info_list)
    /\ UNCHANGED << params, files, run, snapshot, software_list, software_info_list,
                    software_info, loopvars, emitted >>

\* Join that waits until every task has returned a dict.
Join_when_returned ==
    /\ pc = "map"
    /\ \A i \in 1..Len(software_info_list) :
          software_info_list[i] # Pending /\ software_info_list[i].state = "returned"
    /\ pc' = after_map(software_info_list)
    /\ UNCHANGED << params, files, run, snapshot, software_list, software_info_list,
                    software_info, loopvars, emitted >>

\* pool.map ends once every task has ended.
Join ==
    /\ pc = "map"
    /\ \A i \in 1..Len(software_info_list) : software_info_list[i] # Pending
    /\ pc' = after_map(software_info_list)
    /\ UNCHANGED << params, files, run, snapshot, software_list, software_info_list,
                    software_info, loopvars, emitted >>

\* The merge of the workers' dicts.
Merge ==
    /\ pc = "merge"
    /\ software_info' =
         merge([ i \in 1..Len(software_info_list) |-> software_info_list[i].info ])
    /\ pc' = "sort"
    /\ UNCHANGED << params, files, run, snapshot, software_list, software_info_list,
                    loopvars, emitted >>

\* The chronological sort.
Sort ==
    /\ pc = "sort"
    /\ software_info' = chronological(software_info)
    /\ pc' = "loop"
    /\ UNCHANGED << params, files, run, snapshot, software_list, software_info_list,
                    loopvars, emitted >>

\* must_flush without the comparison of the versions.
must_flush_on_budget(info) ==
    /\ Len(local_software_info) > 0
    /\ build_duration_current_easystack + info.build_duration
          > max_build_time * TicksPerMinute

\* must_flush without the comparison with the budget.
must_flush_on_version(info) ==
    /\ Len(local_software_info) > 0
    /\ info.easybuild_version # previous_eb_ver

\* must_flush that compares the budget with the duration of the open batch alone.
must_flush_on_spent(info) ==
    /\ Len(local_software_info) > 0
    /\ \/ info.easybuild_version # previous_eb_ver
       \/ build_duration_current_easystack > max_build_time * TicksPerMinute

\* must_flush that also flushes when the budget is met exactly.
must_flush_at_budget(info) ==
    /\ Len(local_software_info) > 0
    /\ \/ info.easybuild_version # previous_eb_ver
       \/ build_duration_current_easystack + info.build_duration
             >= max_build_time * TicksPerMinute

\* The condition under which the loop flushes the open batch before it adds info.
must_flush(info) ==
    /\ Len(local_software_info) > 0
    /\ \/ info.easybuild_version # previous_eb_ver
       \/ build_duration_current_easystack + info.build_duration
             > max_build_time * TicksPerMinute

\* open_batch that is not emptied by a flush.
open_batch_kept(flush) == local_software_info

\* next_sequence_number that does not count the flush.
next_sequence_number_stuck(flush) == sequence_number

\* next_sequence_number that counts the records instead of the flushes.
next_sequence_number_per_record(flush) == sequence_number + 1

\* The sequence number after the flush, if any.
next_sequence_number(flush) == IF flush THEN sequence_number + 1 ELSE sequence_number

\* open_duration that a flush does not reset.
open_duration_kept(flush) == build_duration_current_easystack

\* The duration of the open batch the record's is added to: reset by a flush.
open_duration(flush) == IF flush THEN 0 ELSE build_duration_current_easystack

\* The open batch the record is added to: emptied by a flush.
open_batch(flush) == IF flush THEN <<>> ELSE local_software_info

\* One iteration of the segmentation loop.
LoopIteration ==
    /\ pc = "loop"
    /\ idx <= Len(software_info)
    /\ LET software_name == software_info[idx].k
           info == software_info[idx].v
           flush == must_flush(info)
           easystack_file == easystack_name(sequence_number, previous_eb_ver)
           open == open_batch(flush)
           current == open_duration(flush)
       IN  /\ files' = IF flush
                       THEN write_software_info(files, local_software_info, easystack_file,
                                                build_duration_current_easystack)
                       ELSE files
           /\ emitted' = IF flush
                         THEN Append(emitted, Call(local_software_info, easystack_file,
                                                   build_duration_current_easystack))
                         ELSE emitted
           /\ sequence_number' = next_sequence_number(flush)
           /\ local_software_info' = DictSet(open, software_name, info)
           /\ build_duration_current_easystack' = current + info.build_duration
           /\ total_build_duration' = total_build_duration + info.build_duration
           /\ previous_eb_ver' = info.easybuild_version
    /\ idx' = idx + 1
    /\ UNCHANGED << params, pc, run, snapshot, software_list, software_info_list,
                    software_info >>

\* FinalFlush that writes the open batch only when it holds a record.
FinalFlush_when_open ==
    /\ pc = "loop"
    /\ idx > Len(software_info)
    /\ LET easystack_file == easystack_name(sequence_number, previous_eb_ver)
           flush == Len(local_software_info) > 0
       IN  /\ files' = IF flush
                       THEN write_software_info(files, local_software_info, easystack_file,
                                                build_duration_current_easystack)
                       ELSE files
           /\ emitted' = IF flush
                         THEN Append(emitted, Call(local_software_info, easystack_file,
                                                   build_duration_current_easystack))
                         ELSE emitted
    /\ pc' = "done"
    /\ UNCHANGED << params, run, snapshot, software_list, software_info_list,
                    software_info, loopvars >>

\* The flush after the loop.
FinalFlush ==
    /\ pc = "loop"
    /\ idx > Len(software_info)
    /\ LET easystack_file == easystack_name(sequence_number, previous_eb_ver)
       IN  /\ files' = write_software_info(files, local_software_info, easystack_file,
                                           build_duration_current_easystack)
           /\ emitted' = Append(emitted, Call(local_software_info, easystack_file,
                                              build_duration_current_easystack))
    /\ pc' = "done"
    /\ UNCHANGED << params, run, snapshot, software_list, software_info_list,
                    software_info, loopvars >>

\* The script is run again on the same tree, with the same arguments, in the
\* same working directory.
Rerun ==
    /\ pc = "done"
    /\ run < MaxRuns
    /\ run' = run + 1
    /\ snapshot' = files
    /\ pc' = "listdir"
    /\ software_list' = <<>>
    /\ software_info_list' = <<>>
    /\ software_info' = <<>>
    /\ idx' = 1
    /\ sequence_number' = 1
    /\ previous_eb_ver' = None
    /\ total_build_duration' = 0
    /\ build_duration_current_easystack' = 0
    /\ local_software_info' = <<>>
    /\ emitted' = <<>>
    /\ UNCHANGED << params, files >>

Next ==
    \/ ListRoot
    \/ \E i \in 1..Len(software_info_list) : Worker(i)
    \/ Join
    \/ Merge
    \/ Sort
    \/ LoopIteration
    \/ FinalFlush
    \/ Rerun

Spec == Init /\ [][Next]_vars

\* ---------------------------------------------------------------- one run to its end
\* One run of the script on a tree: the interpreter keeps executing the main
\* process and the pool keeps executing every task it was handed, so a step
\* that stays possible is taken.
Run ==
    \/ ListRoot
    \/ \E i \in 1..Len(software_info_list) : Worker(i)
    \/ Join
    \/ Merge
    \/ Sort
    \/ LoopIteration
    \/ FinalFlush

\* The trees of at most the two units a and EasyBuild, in either os.listdir order.
RunUnits == { UnitA, EasyBuild }
RunTrees ==
    UNION { TreesOf(names) :
              names \in { l \in Listings(RunUnits, Cardinality(RunUnits)) : Distinct(l) } }

InitRun ==
    /\ root_dir \in RunTrees
    /\ eb_override_version \in { None, EB4 }
    /\ max_build_time \in { 1, MaxBudget }
    /\ files = << >>
    /\ snapshot = << >>
    /\ pc = "listdir"
    /\ run = 1
    /\ software_list = <<>>
    /\ software_info_list = <<>>
    /\ software_info = <<>>
    /\ LoopStart
    /\ emitted = <<>>

SpecRun == InitRun /\ [][Run]_vars /\ WF_vars(Run)

\* ---------------------------------------------------------------- the loop alone
\* The registry after the sort, for a tree of unit a with the versions 1, 2, ...
\* each built once: version i at tick i, for builds[i][1] ticks, under
\* EasyBuild builds[i][2].
Registry(builds) ==
    [ i \in 1..Len(builds) |->
        software_item(UnitA, Str(i), i, builds[i][1], builds[i][2], i) ]

RECURSIVE SeqsUpTo(_, _)
SeqsUpTo(S, n) ==
    IF n = 0 THEN { <<>> }
    ELSE LET shorter == SeqsUpTo(S, n - 1)
         IN  shorter \cup { Append(l, x) : l \in { q \in shorter : Len(q) = n - 1 }, x \in S }

Registries ==
    { Registry(b) : b \in SeqsUpTo(Durations \X EBVersions, MaxRecords) }
    \cup { Registry(b) : b \in [1..MaxLong -> { <<1, EB4>>, <<1, EB5>> }] }

InitSeg ==
    /\ root_dir = <<>>
    /\ eb_override_version = None
    /\ max_build_time \in { 1, MaxBudget }
    /\ files = << >>
    /\ snapshot = << >>
    /\ pc = "loop"
    /\ run = 1
    /\ software_list = <<>>
    /\ software_info_list = <<>>
    /\ software_info \in Registries
    /\ LoopStart
    /\ emitted = <<>>

NextSeg ==
    \/ LoopIteration
    \/ FinalFlush

SpecSeg == InitSeg /\ [][NextSeg]_vars

\* ---------------------------------------------------------------- the loop on long builds
\* Registries of three records whose builds took 30, 50 or 60 minutes under the
\* EasyBuild versions "1" and "2", and budgets of 100 and 110 minutes.
Minutes(n) == n * TicksPerMinute
Ver1 == << "1" >>
Ver2 == << "2" >>
LongBuilds == { Minutes(30), Minutes(50), Minutes(60) } \X { Ver1, Ver2 }
ExampleRegistry ==
    Registry(<< << Minutes(60), Ver1 >>, << Minutes(50), Ver1 >>, << Minutes(30), Ver2 >> >>)

InitLong ==
    /\ root_dir = <<>>
    /\ eb_override_version = None
    /\ max_build_time \in { 100, 110 }
    /\ files = << >>
    /\ snapshot = << >>
    /\ pc = "loop"
    /\ run = 1
    /\ software_list = <<>>
    /\ software_info_list = <<>>
    /\ software_info \in { Registry(<< a, b, c >>) : a, b, c \in LongBuilds }
    /\ LoopStart
    /\ emitted = <<>>

SpecLong == InitLong /\ [][NextSeg]_vars

\* ---------------------------------------------------------------- the crawl of one unit
\* The lines and the logs tried: every log of at most MaxLines lines, and the log
\* that starts at 12:59:09,573 and ends at 14:29:09,573 of the same day.
LogLines == { Line(t, m) : t \in { NoStamp } \cup Stamps, m \in { None, EB5 } }
ExampleLog == << Line(1, EB5), Line(NoStamp, None), Line(1 + 90 * TicksPerMinute, None) >>
Logs == SeqsUpTo(LogLines, MaxLines) \cup { ExampleLog }

\* The files the log glob matches in an attempt directory of tick t: one log of
\* a build of t ticks under either version, no file, two files.
CrawlLogFiles(t) ==
    { << GoodLog(t, t, EB4) >>, << GoodLog(t, t, EB5) >>, <<>>,
      << GoodLog(t, t, EB4), GoodLog(t, t, EB5) >> }

\* The attempt directories of the ticks of a listing, with every choice of files.
RECURSIVE AttemptListings(_)
AttemptListings(ticks) ==
    IF ticks = <<>> THEN { <<>> }
    ELSE { << AttemptDir(Head(ticks), ls) >> \o rest :
             ls \in CrawlLogFiles(Head(ticks)), rest \in AttemptListings(Tail(ticks)) }

\* A version directory in os.listdir order: up to MaxAttempts attempts in any
\* order, or one attempt with any log.
CrawlAttempts ==
    UNION { AttemptListings(ticks) :
              ticks \in { l \in Listings(1..MaxAttempts, MaxAttempts) :
                            l # <<>> /\ Distinct(l) } }
    \cup { << AttemptDir(1, << log >>) >> : log \in Logs }

\* The trees of one unit with one version.
CrawlTrees ==
    { << [name |-> name,
          versions |-> << [version |-> IF name = EasyBuild THEN EB5 ELSE << "d" >>,
                           attempts |-> att] >>] >> :
        name \in { UnitA, EasyBuild }, att \in CrawlAttempts }

InitCrawl ==
    /\ root_dir \in CrawlTrees
    /\ eb_override_version \in { None, EB4 }
    /\ max_build_time = MaxBudget
    /\ files = << >>
    /\ snapshot = << >>
    /\ pc = "listdir"
    /\ run = 1
    /\ software_list = <<>>
    /\ software_info_list = <<>>
    /\ software_info = <<>>
    /\ LoopStart
    /\ emitted = <<>>

NextCrawl ==
    \/ ListRoot
    \/ \E i \in 1..Len(software_info_list) : Worker(i)
    \/ Join
    \/ Merge
    \/ Sort
    \/ LoopIteration
    \/ FinalFlush

SpecCrawl == InitCrawl /\ [][NextCrawl]_vars

\* ---------------------------------------------------------------- the sort alone
\* Trees whose every log is well formed, for the merge and the sort: a unit
\* holds one or more versions, in either os.listdir order, each built once.
SortVersionsOf(name) == IF name = EasyBuild THEN EBVersions ELSE VersionsOf(name)

RECURSIVE BuiltOnce(_)
BuiltOnce(versions) ==
    IF versions = <<>> THEN { <<>> }
    ELSE { << [version |-> Head(versions),
               attempts |-> << AttemptDir(t, << GoodLog(t, 1, EB5) >>) >>] >> \o rest :
             t \in Stamps, rest \in BuiltOnce(Tail(versions)) }

SortUnitDirs(name) ==
    { [name |-> name, versions |-> vds] :
        vds \in UNION { BuiltOnce(l) :
                  l \in { q \in Listings(SortVersionsOf(name), Cardinality(SortVersionsOf(name))) :
                            q # <<>> /\ Distinct(q) } } }

RECURSIVE SortTreesOf(_)
SortTreesOf(names) ==
    IF names = <<>> THEN { <<>> }
    ELSE { << u >> \o rest : u \in SortUnitDirs(Head(names)),
                             rest \in SortTreesOf(Tail(names)) }

SortTrees ==
    UNION { SortTreesOf(names) :
              names \in { l \in Listings(UnitNames, MaxUnits) : l # <<>> /\ Distinct(l) } }

InitSort ==
    /\ root_dir \in SortTrees
    /\ eb_override_version \in { None, EB4 }
    /\ max_build_time = MaxBudget
    /\ files = << >>
    /\ snapshot = << >>
    /\ pc = "listdir"
    /\ run = 1
    /\ software_list = <<>>
    /\ software_info_list = <<>>
    /\ software_info = <<>>
    /\ LoopStart
    /\ emitted = <<>>

SpecSort == InitSort /\ [][NextCrawl]_vars

\* ---------------------------------------------------------------- the same tree listed again
\* The orders in which os.listdir may list the entries of a directory.
Relisted(entries) ==
    { [ i \in 1..Len(entries) |-> entries[f[i]] ] : f \in Permutations(1..Len(entries)) }

\* The version directories of a unit with their attempt directories listed in
\* any order, and the unit directories of a tree with their version
\* directories listed in any order.
RECURSIVE RelistedAttempts(_)
RelistedAttempts(version_dirs) ==
    IF version_dirs = <<>> THEN { <<>> }
    ELSE { << [version |-> Head(version_dirs).version, attempts |-> a] >> \o rest :
             a \in Relisted(Head(version_dirs).attempts),
             rest \in RelistedAttempts(Tail(version_dirs)) }

RECURSIVE RelistedVersions(_)
RelistedVersions(unit_dirs) ==
    IF unit_dirs = <<>> THEN { <<>> }
    ELSE { << [name |-> Head(unit_dirs).name, versions |-> v] >> \o rest :
             v \in UNION { Relisted(w) : w \in RelistedAttempts(Head(unit_dirs).versions) },
             rest \in RelistedVersions(Tail(unit_dirs)) }

\* The same tree with every directory listed in any order.
Relistings(tree) == UNION { Relisted(t) : t \in RelistedVersions(tree) }

\* Trees of EasyBuild, with one or more versions each built once, and of unit
\* a, with one version built once or rebuilt.
RelistUnitDirs(name) ==
    IF name = EasyBuild THEN SortUnitDirs(EasyBuild)
    ELSE { [name |-> name, versions |-> << [version |-> << "d" >>, attempts |-> att] >>] :
             att \in Rebuilt \cup { << AttemptDir(t, << GoodLog(t, 1, EB5) >>) >> : t \in Stamps } }

RECURSIVE RelistTreesOf(_)
RelistTreesOf(names) ==
    IF names = <<>> THEN { <<>> }
    ELSE { << u >> \o rest : u \in RelistUnitDirs(Head(names)),
                             rest \in RelistTreesOf(Tail(names)) }

RelistTrees ==
    UNION { RelistTreesOf(names) :
              names \in { l \in Listings(RunUnits, Cardinality(RunUnits)) : Distinct(l) } }

InitRelist ==
    /\ root_dir \in RelistTrees
    /\ eb_override_version \in { None, EB4 }
    /\ max_build_time = MaxBudget
    /\ files = << >>
    /\ snapshot = << >>
    /\ pc = "listdir"
    /\ run = 1
    /\ software_list = <<>>
    /\ software_info_list = <<>>
    /\ software_info = <<>>
    /\ LoopStart
    /\ emitted = <<>>

\* The script is run a second time with the same arguments, in an empty working
\* directory, on the same tree, whose directories os.listdir lists in any order.
Relist ==
    /\ pc = "done"
    /\ run = 1
    /\ run' = run + 1
    /\ root_dir' \in Relistings(root_dir)
    /\ snapshot' = files
    /\ files' = << >>
    /\ pc' = "listdir"
    /\ software_list' = <<>>
    /\ software_info_list' = <<>>
    /\ software_info' = <<>>
    /\ idx' = 1
    /\ sequence_number' = 1
    /\ previous_eb_ver' = None
    /\ total_build_duration' = 0
    /\ build_duration_current_easystack' = 0
    /\ local_software_info' = <<>>
    /\ emitted' = <<>>
    /\ UNCHANGED << eb_override_version, max_build_time >>

NextRelist ==
    \/ Run
    \/ Relist

SpecRelist == InitRelist /\ [][NextRelist]_vars

\* ---------------------------------------------------------------- reading the output
IsDigit(c) == \E i \in 1..10 : DigitChar[i] = c
DigitValue(c) == (CHOOSE i \in 1..10 : DigitChar[i] = c) - 1

RECURSIVE ParseNat(_, _)
ParseNat(chars, n) ==
    IF chars = <<>> \/ ~IsDigit(Head(chars)) THEN n
    ELSE ParseNat(Tail(chars), 10 * n + DigitValue(Head(chars)))

\* The sequence number in a manifest's file name: the digits after "easystack-".
NameNumber(file) == ParseNat(SubSeq(file, 11, Len(file)), 0)

FilesNumbered(k) == { f \in DOMAIN files : NameNumber(f) = k }

\* The easyconfig paths of the entries among the lines, in order.
IsEntry(line) == line.text = "entry"
EntryPaths(lines) ==
    LET entries == SelectSeq(lines, IsEntry)
    IN  [ i \in 1..Len(entries) |-> entries[i].easyconfig ]

\* The entries of the manifest files numbered 1..k, in that order.
RECURSIVE Written(_)
Written(k) ==
    IF k = 0 THEN <<>>
    ELSE Written(k - 1) \o EntryPaths(files[CHOOSE f \in FilesNumbered(k) : TRUE])

Paths(info) == [ i \in 1..Len(info) |-> info[i].v.easyconfig_path ]

RECURSIVE SumDur(_)
SumDur(info) ==
    IF info = <<>> THEN 0 ELSE info[1].v.build_duration + SumDur(Tail(info))

Budget == max_build_time * TicksPerMinute

OneVersion(info) ==
    \A i, j \in 1..Len(info) : info[i].v.easybuild_version = info[j].v.easybuild_version

\* ---------------------------------------------------------------- claims, the loop alone
\* C1. Completeness and order: the entries of the manifest files, read in the
\* order of their sequence numbers, followed by the records of the open batch,
\* are the records of the sorted registry consumed so far, in the registry's
\* order; when the script is done the files hold the whole registry, every
\* record once.
C1_CompleteInOrder ==
    LET n == Cardinality(DOMAIN files)
    IN  /\ \A k \in 1..n : Cardinality(FilesNumbered(k)) = 1
        /\ IF pc = "done"
           THEN Written(n) = Paths(software_info)
           ELSE Written(n) \o Paths(local_software_info)
                  = Paths(SubSeq(software_info, 1, idx - 1))

C1_Witness ==
    /\ pc = "done"
    /\ Len(software_info) = MaxRecords
    /\ Len(emitted) = 2
    /\ Len(emitted[1].info) = 2

\* C2. Single-version batches: the records of the open batch all have the same
\* easybuild_version, and so have the records of every batch written.
C2_SingleVersion ==
    /\ OneVersion(local_software_info)
    /\ \A m \in 1..Len(emitted) : OneVersion(emitted[m].info)

C2_Witness ==
    /\ Len(emitted) >= 2
    /\ Len(emitted[1].info) >= 2
    /\ emitted[1].info[1].v.easybuild_version # emitted[2].info[1].v.easybuild_version

\* C3. Duration bound: the durations of the records of a batch written sum to
\* at most the budget, unless the batch is one record that alone exceeds it.
C3_DurationBound ==
    \A m \in 1..Len(emitted) :
        LET batch == emitted[m].info
        IN  \/ SumDur(batch) <= Budget
            \/ Len(batch) = 1 /\ batch[1].v.build_duration > Budget

C3_Witness ==
    /\ \E m \in 1..Len(emitted) :
          Len(emitted[m].info) = 1 /\ SumDur(emitted[m].info) > Budget
    /\ \E m \in 1..Len(emitted) :
          Len(emitted[m].info) >= 2 /\ SumDur(emitted[m].info) = Budget

\* C6 as stated. The file names, sorted as strings, are in the order in which
\* the batches were written.
C6_LexicographicOrder ==
    \A i, j \in 1..Len(emitted) :
        i < j => StrLess(emitted[i].file, emitted[j].file)

\* C6 as amended. The sequence numbers in the file names are in the order in
\* which the batches were written, and the names of the first nine manifests,
\* sorted as strings, are in that order too.
C6_NumberOrder ==
    \A i, j \in 1..Len(emitted) :
        i < j =>
            /\ NameNumber(emitted[i].file) < NameNumber(emitted[j].file)
            /\ j <= 9 => StrLess(emitted[i].file, emitted[j].file)

C6_Witness ==
    /\ pc = "done"
    /\ Len(emitted) >= 10

\* ---------------------------------------------------------------- claims, the script
ReturnedIn(i) == software_info_list[i].state = "returned"
RaisedIn(i) == software_info_list[i].state = "raised"
Tasks == 1..Len(software_info_list)
HasUnit(name) == \E i \in 1..Len(root_dir) : root_dir[i].name = name

\* C4 as stated. Idempotence: when the script has run again on the unchanged
\* tree, the output directory is what it was after the run before.
C4_Idempotent ==
    (pc = "done" /\ run > 1) => files = snapshot

\* C5. Bootstrap precedence: under an override, with the unit EasyBuild in the
\* tree, the first entry of the first manifest written is a record of EasyBuild.
C5_BootstrapFirst ==
    (eb_override_version # None /\ HasUnit(EasyBuild) /\ emitted # <<>>) =>
        /\ NameNumber(emitted[1].file) = 1
        /\ EntryPaths(emitted[1].lines) # <<>>
        /\ EntryPaths(emitted[1].lines)[1].dir[1] = EasyBuild

C5_Witness ==
    /\ pc = "done"
    /\ eb_override_version # None
    /\ \E i, j \in 1..Len(root_dir) :
          /\ i < j
          /\ root_dir[j].name = EasyBuild
          /\ root_dir[i].versions[1].attempts[1].datestamp
                < root_dir[j].versions[1].attempts[1].datestamp

\* C7 as stated. Manifests are written once: the batches of a run go to
\* different file names, a batch written is not changed afterwards, and no step
\* changes or removes a file the output directory holds.
C7_NeverMutated ==
    [][ /\ \A i, j \in 1..Len(emitted') :
              i # j => emitted'[i].file # emitted'[j].file
        /\ run' = run =>
              /\ Len(emitted') >= Len(emitted)
              /\ SubSeq(emitted', 1, Len(emitted)) = emitted
        /\ \A f \in DOMAIN files :
              f \in DOMAIN files' /\ files'[f] = files[f] ]_vars

\* C8. Fail-fast: once a task has raised, the script does not get past
\* pool.map: the registry stays empty, write_software_info is not called and
\* the output directory stays as the run found it.
C8_FailFast ==
    (\E i \in Tasks : RaisedIn(i)) =>
        /\ pc \in { "map", "aborted" }
        /\ software_info = <<>>
        /\ emitted = <<>>
        /\ files = snapshot

C8_Witness ==
    /\ pc = "aborted"
    /\ \E i \in Tasks : ReturnedIn(i) /\ software_info_list[i].info # <<>>

\* C9 as stated. Merge never overwrites: when two tasks returned dicts that
\* hold the same key, the script does not get past the merge.
C9_MergeRaises ==
    (\E i, j \in Tasks :
        /\ i # j
        /\ ReturnedIn(i) /\ ReturnedIn(j)
        /\ Keys(software_info_list[i].info) \cap Keys(software_info_list[j].info) # {})
    => pc \notin { "sort", "loop", "done" }

\* C10 as stated. Key uniqueness: the dicts of two tasks share no key, and the
\* merged registry holds one record for every version directory of the tree.
RECURSIVE CountVersionDirs(_)
CountVersionDirs(tree) ==
    IF tree = <<>> THEN 0 ELSE Len(Head(tree).versions) + CountVersionDirs(Tail(tree))

C10_KeysUnique ==
    /\ \A i, j \in Tasks :
          (i # j /\ ReturnedIn(i) /\ ReturnedIn(j)) =>
              Keys(software_info_list[i].info) \cap Keys(software_info_list[j].info) = {}
    /\ pc \in { "sort", "loop", "done" } =>
          Len(software_info) = CountVersionDirs(root_dir)

\* ---------------------------------------------------------------- claims, the crawl
Units == 1..Len(root_dir)
Ended(i) == i \in Tasks /\ software_info_list[i] # Pending
Overridden(i) == root_dir[i].name = EasyBuild /\ eb_override_version # None
Ambiguous(attempt) == Len(attempt.logs) # 1

\* The attempt directories of a version that os.listdir lists first and last,
\* and the ones with the smallest and the greatest datestamp.
ListedFirst(vd) == vd.attempts[1]
ListedLast(vd) == vd.attempts[Len(vd.attempts)]
Earliest(vd) ==
    CHOOSE a \in { vd.attempts[n] : n \in 1..Len(vd.attempts) } :
        \A n \in 1..Len(vd.attempts) : a.datestamp <= vd.attempts[n].datestamp
Latest(vd) ==
    CHOOSE a \in { vd.attempts[n] : n \in 1..Len(vd.attempts) } :
        \A n \in 1..Len(vd.attempts) : a.datestamp >= vd.attempts[n].datestamp
VersionsIn(i) == { root_dir[i].versions[n] : n \in 1..Len(root_dir[i].versions) }

\* C11 as stated. Ambiguous artifact is fatal: the task of a unit raises when
\* the glob of the first or of the last attempt of one of its versions does not
\* match exactly one file, under an override or not.
C11_AmbiguousFatal ==
    \A i \in Units :
        (/\ Ended(i)
         /\ \E vd \in VersionsIn(i) : Ambiguous(Earliest(vd)) \/ Ambiguous(Latest(vd)))
        => RaisedIn(i)

\* C11 as amended. The task of a unit raises when, for one of its versions, the
\* glob of the attempt directory listed first does not match exactly one file,
\* or, unless the unit is EasyBuild under an override, the glob of the attempt
\* directory listed last does not.
C11_AmbiguousListedFatal ==
    \A i \in Units :
        (/\ Ended(i)
         /\ \E vd \in VersionsIn(i) :
               \/ Ambiguous(ListedFirst(vd))
               \/ ~Overridden(i) /\ Ambiguous(ListedLast(vd)))
        => RaisedIn(i)

C11_Witness ==
    /\ pc = "aborted"
    /\ \E i \in Units : \E vd \in VersionsIn(i) :
          /\ Len(vd.attempts) = MaxAttempts
          /\ Len(ListedFirst(vd).logs) = 2
          /\ ~Ambiguous(ListedLast(vd))

\* The value stored under a key of a dict.
Lookup(d, key) == d[CHOOSE n \in 1..Len(d) : d[n].k = key].v

\* The record the task of unit i returned for a version directory.
RecordOf(i, vd) ==
    Lookup(software_info_list[i].info, registry_key(root_dir[i].name, vd.version))

\* Whether the timestamp pattern matches the first and the last line of a log.
Stamped(log) ==
    log # <<>> /\ log[1].stamp # NoStamp /\ log[Len(log)].stamp # NoStamp

\* C12. Malformed log is fatal: when the one log of the first attempt directory
\* listed has no line, or a first or a last line without timestamp, the task of
\* the unit raises; a task that returned took the duration from two lines that
\* both carry a timestamp.
C12_MalformedFatal ==
    \A i \in Units : \A vd \in VersionsIn(i) :
        (Ended(i) /\ ~Ambiguous(ListedFirst(vd))) =>
            LET log == ListedFirst(vd).logs[1]
            IN  /\ ~Stamped(log) => RaisedIn(i)
                /\ ReturnedIn(i) =>
                      /\ Stamped(log)
                      /\ RecordOf(i, vd).build_duration
                            = log[Len(log)].stamp - log[1].stamp

C12_Witness ==
    /\ pc = "aborted"
    /\ \E i \in Units : \E vd \in VersionsIn(i) :
          /\ Overridden(i)
          /\ Len(vd.attempts) = 1
          /\ ~Ambiguous(ListedFirst(vd))
          /\ LET log == ListedFirst(vd).logs[1]
             IN  /\ Len(log) = MaxLines
                 /\ log[1].stamp # NoStamp
                 /\ log[2].stamp # NoStamp
                 /\ log[Len(log)].stamp = NoStamp

\* C13. Missing version marker is fatal: unless the version is overridden, when
\* the first line of the one log of the last attempt directory listed carries
\* no marker (or the log has no line), the task of the unit raises; a task that
\* returned took the version from the first line.
C13_MissingMarkerFatal ==
    \A i \in Units : \A vd \in VersionsIn(i) :
        (Ended(i) /\ ~Overridden(i) /\ ~Ambiguous(ListedLast(vd))) =>
            LET log == ListedLast(vd).logs[1]
                marked == log # <<>> /\ log[1].marker # None
            IN  /\ ~marked => RaisedIn(i)
                /\ ReturnedIn(i) =>
                      /\ marked
                      /\ RecordOf(i, vd).easybuild_version = log[1].marker

C13_Witness ==
    /\ pc = "aborted"
    /\ \E i \in Units : \E vd \in VersionsIn(i) :
          /\ ~Overridden(i)
          /\ Len(vd.attempts) = 1
          /\ ~Ambiguous(ListedLast(vd))
          /\ LET log == ListedLast(vd).logs[1]
             IN  /\ Len(log) = MaxLines
                 /\ Stamped(log)
                 /\ log[1].marker = None
                 /\ log[2].marker # None

\* C14 as stated. Every exception that ends a task has a message that names
\* the offending path (and with it the unit and the version).
C14_DiagnosticNamesPath ==
    \A i \in Tasks : RaisedIn(i) => "path" \in software_info_list[i].names

\* Whether the version of the record comes without failure: it is overridden,
\* or the one log of the last attempt directory listed has the marker.
VersionFound(i, vd) ==
    \/ Overridden(i)
    \/ /\ ~Ambiguous(ListedLast(vd))
       /\ ListedLast(vd).logs[1] # <<>>
       /\ ListedLast(vd).logs[1][1].marker # None

\* C15. Build duration: when the first and the last line of the log of the
\* first attempt directory listed carry a timestamp (and the version is found),
\* the task returns the record with the last timestamp minus the first as
\* duration, whatever the lines between them: 90 minutes for the log from
\* 12:59:09,573 to 14:29:09,573, and 0 for a log of one line.
C15_Duration ==
    \A i \in Units : \A vd \in VersionsIn(i) :
        (/\ Ended(i)
         /\ Len(root_dir[i].versions) = 1
         /\ ~Ambiguous(ListedFirst(vd))
         /\ Stamped(ListedFirst(vd).logs[1])
         /\ VersionFound(i, vd)) =>
            LET log == ListedFirst(vd).logs[1]
                duration == RecordOf(i, vd).build_duration
            IN  /\ ReturnedIn(i)
                /\ duration = log[Len(log)].stamp - log[1].stamp
                /\ log = ExampleLog => duration = 90 * TicksPerMinute
                /\ Len(log) = 1 => duration = 0

C15_Witness ==
    /\ pc = "done"
    /\ ListedFirst(root_dir[1].versions[1]).logs = << ExampleLog >>
    /\ software_info[1].v.build_duration = 90 * TicksPerMinute

\* The timestamps of the lines of a log that carry one.
StampsOf(log) == { log[n].stamp : n \in 1..Len(log) } \ { NoStamp }
MaxOf(S) == CHOOSE t \in S : \A u \in S : t >= u
MinOf(S) == CHOOSE t \in S : \A u \in S : t <= u

\* C16 as stated. The duration comes from the earliest and the latest
\* timestamped line: when some line of the log carries a timestamp (and the
\* version is found), the task returns the record with the latest timestamp
\* minus the earliest as duration, also when the first or the last line
\* carries none.
C16_EarliestLatest ==
    \A i \in Units : \A vd \in VersionsIn(i) :
        (/\ Ended(i)
         /\ Len(root_dir[i].versions) = 1
         /\ ~Ambiguous(ListedFirst(vd))
         /\ StampsOf(ListedFirst(vd).logs[1]) # {}
         /\ VersionFound(i, vd)) =>
            LET log == ListedFirst(vd).logs[1]
            IN  /\ ReturnedIn(i)
                /\ RecordOf(i, vd).build_duration
                      = MaxOf(StampsOf(log)) - MinOf(StampsOf(log))

\* C16 as amended. The duration comes from the first and the last physical
\* line: when the first or the last line of the log carries no timestamp the
\* task raises, also when other lines carry one; a task that returned took the
\* last line's timestamp minus the first line's, also when a line between them
\* is earlier or later than both.
C16_FirstLastLine ==
    \A i \in Units : \A vd \in VersionsIn(i) :
        (Ended(i) /\ ~Ambiguous(ListedFirst(vd))) =>
            LET log == ListedFirst(vd).logs[1]
            IN  /\ (StampsOf(log) # {} /\ ~Stamped(log)) =>
                      /\ RaisedIn(i)
                      /\ software_info_list[i].exception = "ValueError"
                /\ (ReturnedIn(i) /\ Len(log) > 1) =>
                      RecordOf(i, vd).build_duration
                          = log[Len(log)].stamp - log[1].stamp

C16_Witness ==
    /\ pc = "aborted"
    /\ \E i \in Units : \E vd \in VersionsIn(i) :
          /\ Overridden(i)
          /\ Len(vd.attempts) = 1
          /\ ~Ambiguous(ListedFirst(vd))
          /\ LET log == ListedFirst(vd).logs[1]
             IN  /\ Len(log) = MaxLines
                 /\ log[1].stamp = NoStamp
                 /\ log[2].stamp # NoStamp
                 /\ log[Len(log)].stamp # NoStamp

\* The directory of an attempt of a version of unit i, as the paths name it.
AttemptPath(i, vd, attempt) == << root_dir[i].name, vd.version, attempt.datestamp >>

\* C17. Without override, the record of a version has the datestamp of the
\* attempt directory with the smallest name as initial_build_time and the
\* duration of the log of that same attempt as build_duration, in whatever
\* order os.listdir lists the attempt directories.
C17_OriginalInstallation ==
    \A i \in Units : \A vd \in VersionsIn(i) :
        (Ended(i) /\ ReturnedIn(i) /\ ~Overridden(i)) =>
            LET first == Earliest(vd)
            IN  /\ RecordOf(i, vd).initial_build_time = first.datestamp
                /\ (~Ambiguous(first) /\ Stamped(first.logs[1])) =>
                      RecordOf(i, vd).build_duration
                          = first.logs[1][Len(first.logs[1])].stamp - first.logs[1][1].stamp

\* C18. Without override, the record of a version has the EasyBuild version of
\* the log of the attempt directory with the greatest name, and its two paths
\* point into that directory, in whatever order os.listdir lists the attempt
\* directories.
C18_LastInstallation ==
    \A i \in Units : \A vd \in VersionsIn(i) :
        (Ended(i) /\ ReturnedIn(i) /\ ~Overridden(i)) =>
            LET last == Latest(vd)
            IN  /\ RecordOf(i, vd).easyconfig_path.dir = AttemptPath(i, vd, last)
                /\ RecordOf(i, vd).easyblock_path.dir = AttemptPath(i, vd, last)
                /\ (~Ambiguous(last) /\ last.logs[1] # <<>>) =>
                      RecordOf(i, vd).easybuild_version = last.logs[1][1].marker

\* C19 as stated. Bootstrap override bypasses extraction entirely: under an
\* override the task of EasyBuild returns, whatever the logs of the unit are,
\* and every record has the sentinel as initial_build_time and the override as
\* easybuild_version.
C19_OverrideBypassesLogs ==
    \A i \in Units : \A vd \in VersionsIn(i) :
        (Ended(i) /\ Overridden(i) /\ vd.attempts # <<>>) =>
            /\ ReturnedIn(i)
            /\ RecordOf(i, vd).initial_build_time = Epoch
            /\ RecordOf(i, vd).easybuild_version = eb_override_version

\* C19 as amended. Bootstrap override bypasses the extraction of the version
\* only: under an override the task of EasyBuild returns exactly when the glob
\* of the first attempt directory listed matches one file whose first and last
\* line carry a timestamp, whatever the last attempt directory listed holds;
\* every record it returns has the sentinel as initial_build_time and the
\* override as easybuild_version.
C19_OverrideBypassesVersion ==
    \A i \in Units : \A vd \in VersionsIn(i) :
        (Ended(i) /\ Overridden(i) /\ vd.attempts # <<>>
           /\ Len(root_dir[i].versions) = 1) =>
            /\ ReturnedIn(i) <=> /\ ~Ambiguous(ListedFirst(vd))
                                 /\ Stamped(ListedFirst(vd).logs[1])
            /\ ReturnedIn(i) =>
                  /\ RecordOf(i, vd).initial_build_time = Epoch
                  /\ RecordOf(i, vd).easybuild_version = eb_override_version

C19_Witness ==
    /\ pc = "done"
    /\ \E i \in Units : \E vd \in VersionsIn(i) :
          /\ Overridden(i)
          /\ Len(vd.attempts) > 1
          /\ Ambiguous(ListedLast(vd))
          /\ RecordOf(i, vd).initial_build_time = Epoch
          /\ RecordOf(i, vd).easybuild_version = eb_override_version

\* The merge of the dicts the tasks returned, and the place of a key in a dict.
MergedRegistry ==
    merge([ i \in 1..Len(software_info_list) |-> software_info_list[i].info ])
Position(d, key) == CHOOSE n \in 1..Len(d) : d[n].k = key

\* The keys of the versions of the tree, unit by unit in os.listdir order and,
\* within a unit, version by version in os.listdir order.
RECURSIVE ListedKeys(_)
ListedKeys(units) ==
    IF units = <<>> THEN <<>>
    ELSE [ n \in 1..Len(Head(units).versions) |->
             registry_key(Head(units).name, Head(units).versions[n].version) ]
         \o ListedKeys(Tail(units))

\* C20. Once sorted, software_info holds the items of the merged registry, each
\* once, in non-decreasing initial_build_time, and two items of equal
\* initial_build_time are in the order they had in the merged registry, which
\* is the order of the unit listing and then of the version listing.
C20_StableChronological ==
    pc \in { "loop", "done" } =>
        /\ Len(software_info) = Len(MergedRegistry)
        /\ { software_info[n] : n \in 1..Len(software_info) }
              = { MergedRegistry[n] : n \in 1..Len(MergedRegistry) }
        /\ \A m, n \in 1..Len(software_info) :
              m < n =>
                /\ software_info[m].v.initial_build_time
                      <= software_info[n].v.initial_build_time
                /\ software_info[m].v.initial_build_time
                      = software_info[n].v.initial_build_time =>
                        Position(MergedRegistry, software_info[m].k)
                          < Position(MergedRegistry, software_info[n].k)
        /\ Distinct(ListedKeys(root_dir)) =>
              [ n \in 1..Len(MergedRegistry) |-> MergedRegistry[n].k ] = ListedKeys(root_dir)

C20_Witness ==
    /\ pc = "loop"
    /\ idx = 1
    /\ software_info # MergedRegistry
    /\ \E i \in Units : Len(root_dir[i].versions) > 1
    /\ \E m, n \in 1..Len(software_info) :
          /\ m < n
          /\ software_info[m].v.initial_build_time = software_info[n].v.initial_build_time

\* ---------------------------------------------------------------- claims, the end of the loop
\* "easystack-1-eb-None.yml"
FirstOfNone ==
    << "e", "a", "s", "y", "s", "t", "a", "c", "k", "-", "1", "-", "e", "b", "-",
       "N", "o", "n", "e", ".", "y", "m", "l" >>

\* C21. Final flush is unconditional: when the script is done, the last
\* manifest written holds the records of the open batch, which ends with the
\* last record of the registry, also when it is the batch's only record; for an
\* empty registry the one manifest written is easystack-1-eb-None.yml, with a
\* header and no entry.
C21_FinalFlush ==
    pc = "done" =>
        /\ emitted # <<>>
        /\ emitted[Len(emitted)].info = local_software_info
        /\ software_info # <<>> =>
              /\ local_software_info # <<>>
              /\ local_software_info[Len(local_software_info)]
                    = software_info[Len(software_info)]
        /\ software_info = <<>> =>
              /\ Len(emitted) = 1
              /\ emitted[1].file = FirstOfNone
              /\ DOMAIN files = { FirstOfNone }
              /\ Len(files[FirstOfNone]) = 2
              /\ EntryPaths(files[FirstOfNone]) = <<>>

C21_Witness ==
    /\ pc = "done"
    /\ software_info = <<>>
    /\ FirstOfNone \in DOMAIN files

\* ---------------------------------------------------------------- claims, the pool
\* The registry of a sequential crawl: inner_loop called on the units of the
\* listing one after the other, and the dicts merged.
SequentialRegistry ==
    merge([ i \in 1..Len(root_dir) |-> inner_loop(root_dir[i].name).val ])

\* C22. Join barrier and interleaving independence: past pool.map every task
\* has returned, nothing is written before; whatever the order in which the
\* tasks ended, the merged registry is the one of a sequential crawl of the
\* unit listing, items and order of keys.
C22_JoinBarrier ==
    /\ (pc \in { "merge", "sort", "loop", "done" } \/ emitted # <<>>) =>
          /\ Len(software_info_list) = Len(root_dir)
          /\ \A i \in Tasks : ReturnedIn(i)
    /\ pc = "sort" => software_info = SequentialRegistry
    /\ pc \in { "loop", "done" } => software_info = chronological(SequentialRegistry)

\* The registries of two units are merged, the first unit's records first.
C22_Witness ==
    /\ pc = "sort"
    /\ Len(software_info) > 1
    /\ Len(root_dir) > 1
    /\ software_info[1].v.easyconfig_path.dir[1] = root_dir[1].name

\* ---------------------------------------------------------------- claims, the worked example
\* The keys of the records of the batches written, batch by batch.
Batches == [ m \in 1..Len(emitted) |-> [ n \in 1..Len(emitted[m].info) |-> emitted[m].info[n].k ] ]
FileNames == [ m \in 1..Len(emitted) |-> emitted[m].file ]
KeyOf(n) == ExampleRegistry[n].k
Stem == << "e", "a", "s", "y", "s", "t", "a", "c", "k", "-" >>

\* C23. Worked example: for the sorted records A (60 minutes, version 1),
\* B (50 minutes, version 1), C (30 minutes, version 2) and a budget of 100
\* minutes the script writes three batches [A], [B], [C] in that order, to
\* easystack-1-eb-1.yml, easystack-2-eb-1.yml and easystack-3-eb-2.yml.
C23_WorkedExample ==
    (pc = "done" /\ software_info = ExampleRegistry /\ max_build_time = 100) =>
        /\ Batches = << << KeyOf(1) >>, << KeyOf(2) >>, << KeyOf(3) >> >>
        /\ FileNames = << Stem \o << "1", "-", "e", "b", "-", "1", ".", "y", "m", "l" >>,
                          Stem \o << "2", "-", "e", "b", "-", "1", ".", "y", "m", "l" >>,
                          Stem \o << "3", "-", "e", "b", "-", "2", ".", "y", "m", "l" >> >>
        /\ \A m \in 1..3 : EntryPaths(files[FileNames[m]]) = Paths(emitted[m].info)

C23_Witness ==
    /\ pc = "done"
    /\ software_info = ExampleRegistry
    /\ max_build_time = 100
    /\ Len(emitted) = 3

\* ---------------------------------------------------------------- claims, names and boundaries
\* C24. Sequence numbers: the k-th manifest written carries the number k, and
\* sequence_number, which the script prints at its end, is then the number of
\* manifests written; until then it is the number of the manifest to write next.
C24_SequenceNumbers ==
    /\ \A k \in 1..Len(emitted) : NameNumber(emitted[k].file) = k
    /\ pc = "done" => sequence_number = Len(emitted)
    /\ pc = "loop" => sequence_number = Len(emitted) + 1

C24_Witness ==
    /\ pc = "done"
    /\ sequence_number = MaxRecords
    /\ NameNumber(emitted[MaxRecords].file) = MaxRecords

\* The batches closed so far, and the open one while the loop runs.
Closed ==
    [ m \in 1..Len(emitted) |-> emitted[m].info ]
    \o (IF pc = "loop" /\ local_software_info # <<>> THEN << local_software_info >> ELSE <<>>)

\* C25. Greedy maximality: of two consecutive batches, either the versions
\* differ or the duration of the first plus the duration of the first record of
\* the second is strictly greater than the budget.
C25_Greedy ==
    \A m \in 1..(Len(Closed) - 1) :
        LET first == Closed[m]
            R == Closed[m + 1][1].v
        IN  \/ R.easybuild_version # first[1].v.easybuild_version
            \/ SumDur(first) + R.build_duration > Budget

\* A batch of several records that meets the budget exactly, followed by a
\* batch of the same version.
C25_Witness ==
    \E m \in 1..(Len(emitted) - 1) :
        /\ Len(emitted[m].info) > 1
        /\ SumDur(emitted[m].info) = Budget
        /\ emitted[m].info[1].v.easybuild_version
              = emitted[m + 1].info[1].v.easybuild_version

\* The version in a manifest's file name: what stands between "-eb-" and ".yml".
NameVersion(file) ==
    SubSeq(file, 10 + Len(Str(NameNumber(file))) + 5, Len(file) - 4)

\* C26. The version in the name of a manifest is the easybuild_version of
\* every record written into it, not the one of the record that made the loop
\* flush.
C26_NameVersion ==
    \A m \in 1..Len(emitted) : \A n \in 1..Len(emitted[m].info) :
        NameVersion(emitted[m].file) = emitted[m].info[n].v.easybuild_version

C26_Witness ==
    /\ Len(emitted) > 1
    /\ NameVersion(emitted[1].file) = EB4
    /\ emitted[2].info[1].v.easybuild_version = EB5

\* ---------------------------------------------------------------- claims, the durations
\* The header of a manifest as written, and the sums of what the headers show
\* and of what was passed to them.
HeaderOf(m) == emitted[m].lines[1]
RECURSIVE SumShown(_)
SumShown(m) == IF m = 0 THEN 0 ELSE SumShown(m - 1) + HeaderOf(m).minutes
RECURSIVE SumPassed(_)
SumPassed(m) == IF m = 0 THEN 0 ELSE SumPassed(m - 1) + emitted[m].duration

\* C27 as stated. The duration written in the header of a manifest is the sum
\* of the durations of its records, and the durations written in the headers
\* add up to the total the script prints at its end.
C27_HeadersAddUp ==
    /\ \A m \in 1..Len(emitted) : Minutes(HeaderOf(m).minutes) = SumDur(emitted[m].info)
    /\ pc = "done" => SumShown(Len(emitted)) = FmtMinutes(total_build_duration)

\* C27 as amended. The duration passed to the header of a manifest is the sum
\* of the durations of its records, and the header shows it rounded to the
\* minute; the durations passed add up to total_build_duration, which the
\* script prints rounded to the minute at its end.
C27_DurationsAddUp ==
    /\ \A m \in 1..Len(emitted) :
          /\ emitted[m].duration = SumDur(emitted[m].info)
          /\ HeaderOf(m).minutes = FmtMinutes(SumDur(emitted[m].info))
          /\ 2 * Minutes(HeaderOf(m).minutes) <= 2 * SumDur(emitted[m].info) + TicksPerMinute
          /\ 2 * Minutes(HeaderOf(m).minutes) >= 2 * SumDur(emitted[m].info) - TicksPerMinute
    /\ build_duration_current_easystack = SumDur(local_software_info)
    /\ pc = "done" => SumPassed(Len(emitted)) = total_build_duration

\* Two manifests whose headers show durations that do not add up to the total.
C27_Witness ==
    /\ pc = "done"
    /\ Len(emitted) > 1
    /\ SumShown(Len(emitted)) # FmtMinutes(total_build_duration)
    /\ SumPassed(Len(emitted)) = total_build_duration

\* ---------------------------------------------------------------- claims, termination
\* The script has ended: done, with every record consumed and the open batch
\* written, or aborted by the exception of a task.
Done ==
    /\ pc = "done"
    /\ idx = Len(software_info) + 1
    /\ emitted # <<>>
    /\ emitted[Len(emitted)].info = local_software_info
    /\ Written(Len(emitted)) = Paths(software_info)
Aborted ==
    /\ pc = "aborted"
    /\ \E i \in Tasks : RaisedIn(i)
    /\ emitted = <<>>

\* C28. Termination: every run on a tree ends, and stays, either done or
\* aborted; it does not stop anywhere else.
C28_Terminates == <>[](Done \/ Aborted)

\* A run that aborted after a task returned, and so after work was done.
C28_Witness ==
    /\ Aborted
    /\ \E i \in Tasks : ReturnedIn(i)
    /\ ~ENABLED Run

\* ---------------------------------------------------------------- claims, the listing order
\* C29. Determinism with respect to enumeration order: the run on the same
\* tree with its directories listed in another order writes the same files
\* with the same entries in the same order.
C29_SameManifests ==
    (pc = "done" /\ run > 1) =>
        /\ DOMAIN files = DOMAIN snapshot
        /\ \A f \in DOMAIN files \cap DOMAIN snapshot :
              EntryPaths(files[f]) = EntryPaths(snapshot[f])

\* ---------------------------------------------------------------- claims, the override and the other units
\* Whether an item of the registry is a record of EasyBuild.
OfEasyBuild(item) == item.v.easyconfig_path.dir[1] = EasyBuild

\* The item of a version directory of a unit when nothing is overridden.
AsBuilt(i, vd) ==
    LET first == ListedFirst(vd).logs[1]
        last == ListedLast(vd).logs[1]
    IN  software_item(root_dir[i].name, vd.version, ListedFirst(vd).datestamp,
                      first[Len(first)].stamp - first[1].stamp, last[1].marker,
                      ListedLast(vd).datestamp).v

\* C30. Under an override the records of EasyBuild, of every version, come
\* before the records of every other unit in the sorted registry and carry the
\* override as easybuild_version; the record of a version of another unit has
\* the time, the duration, the version and the paths of its own attempt
\* directories, as without override.
C30_EasyBuildPrefix ==
    /\ (pc \in { "loop", "done" } /\ eb_override_version # None) =>
          /\ \A m, n \in 1..Len(software_info) :
                (OfEasyBuild(software_info[n]) /\ ~OfEasyBuild(software_info[m])) => n < m
          /\ \A n \in 1..Len(software_info) :
                OfEasyBuild(software_info[n]) =>
                    /\ software_info[n].v.easybuild_version = eb_override_version
                    /\ software_info[n].v.initial_build_time = Epoch
    /\ \A i \in Units : \A vd \in VersionsIn(i) :
          (Ended(i) /\ ReturnedIn(i) /\ root_dir[i].name # EasyBuild) =>
              RecordOf(i, vd) = AsBuilt(i, vd)

\* Two versions of EasyBuild, listed after another unit that was built no
\* later, lead the registry.
C30_Witness ==
    /\ pc = "loop"
    /\ eb_override_version # None
    /\ Len(root_dir) > 1
    /\ root_dir[1].name # EasyBuild
    /\ Len(software_info) > 2
    /\ OfEasyBuild(software_info[1])
    /\ OfEasyBuild(software_info[2])
    /\ ~OfEasyBuild(software_info[3])
    /\ software_info[1].k # software_info[2].k

====
